---------------------------- MODULE Spec2Model ----------------------------
(***************************************************************************)
(* codex-clean: a wrapper that spawns `codex exec --experimental-json`,     *)
(* drains the child's stdout (JSON events) on the calling flow and its     *)
(* stderr on a background thread, aggregates the recognised events and     *)
(* prints a summary.                                                       *)
(*                                                                         *)
(* Text is modelled as a sequence of symbols.  A symbol is one character   *)
(* of variable text (an id, a message, a prompt, a captured byte) or one   *)
(* fixed literal of the program, kept whole ("Session: ", "\n", ...).      *)
(* The empty string is the empty sequence, concatenation is \o.            *)
(*                                                                         *)
(* Specifications:                                                         *)
(*   AggSpec  - CodexOutput driven directly through its public methods     *)
(*   Spec     - run_codex: the calling flow, the stderr drain thread, the  *)
(*              child process and the three pipes between them             *)
(*   FairSpec - Spec with the scheduling fairness of OS threads/processes  *)
(*   ParseSpec - parse_codex_stream run on a reader over a finished input   *)
(*   ClampSpec - main turning run_codex's result into the process exit code *)
(*                                                                         *)
(* Pipes are bounded queues.  The stdout pipe is counted in lines (the     *)
(* reader consumes whole lines), the stderr and stdin pipes in bytes.  The *)
(* 10 MiB capture cap and the 4096-byte chunk are scaled down with the     *)
(* pipes, keeping what matters: the child can write more than a pipe      *)
(* holds, more than the cap, and a chunk can straddle the cap.             *)
(* child.wait() is taken not to fail for a child that was spawned and not  *)
(* yet reaped.                                                             *)
(***************************************************************************)
EXTENDS Integers, Sequences, FiniteSets, TLC

\* ------------------------------------------------------------------ bounds
\* longest sequence of add_thread_id / add_message calls in AggSpec
MaxCalls == 3
\* most render() calls in one AggSpec behaviour
MaxRenders == 2
\* capacity of the stderr pipe, in bytes
PIPE_CAP == 2
\* capacity of the stdin pipe, in bytes
PIPE_IN == 1
\* capacity of the stdout pipe, in lines
PIPE_LINES == 1
\* most lines the child writes to its stdout
MaxOut == 2
\* most bytes the child writes to its stderr
MaxErr == 3
\* longest prompt (its line, prompt and terminator, exceeds PIPE_IN)
MaxPrompt == 1
\* runner.rs STDERR_CAP_BYTES (10 MiB), scaled down
STDERR_CAP_BYTES == 2
\* runner.rs capture_stderr's chunk (4096 bytes), scaled down
CHUNK_LEN == 2

\* most lines of a reader handed to parse_codex_stream in ParseSpec
MaxLines == 3
\* how far beyond 0..=255 the exit codes handed to main's clamp reach
CodeSlack == 3

\* --------------------------------------------------------- std constants
\* u8::MAX
U8_MAX == 255
\* ExitCode::FAILURE (EXIT_FAILURE)
EXIT_FAILURE == 1

\* ------------------------------------------------------------ Option<T>
None == <<>>
Some(x) == <<x>>
IsSome(o) == o # <<>>
Unwrap(o) == o[1]

\* ------------------------------------------------------------ text helpers
NL == "\n"
\* writeln!(buf, "{}", s): append s and a line terminator
Writeln(buf, s) == buf \o s \o <<NL>>

RECURSIVE Join(_, _)
\* [String]::join(sep)
Join(strs, sep) ==
    IF strs = <<>> THEN <<>>
    ELSE IF Len(strs) = 1 THEN strs[1]
    ELSE strs[1] \o sep \o Join(Tail(strs), sep)

\* str::contains for a one-symbol literal
Contains(text, lit) == \E i \in 1..Len(text) : text[i] = lit

\* ------------------------------------------------------------ CodexOutput
VARIABLES
    output,     \* the CodexOutput aggregate
    calls,      \* AggSpec history: the mutating calls made so far
    rendered,   \* AggSpec history: one entry per render() call
    renders     \* AggSpec: number of render() calls made

aggVars == <<output, calls, rendered, renders>>

\* thread ids and message texts the callers supply
ThreadIds == {<<>>, <<"a">>, <<"b">>}
Texts == {<<>>, <<"h">>, <<"w">>}

\* CodexOutput::new() / Default
NewOutput == [session_id |-> None, messages |-> <<>>, multiple_threads_seen |-> FALSE]

\* a bug add_thread_id could have: the last id wins
add_thread_id_LastWins(o, thread_id) ==
    IF ~IsSome(o.session_id)
    THEN [o EXCEPT !.session_id = Some(thread_id)]
    ELSE IF o.session_id # Some(thread_id)
         THEN [o EXCEPT !.session_id = Some(thread_id), !.multiple_threads_seen = TRUE]
         ELSE o

\* a bug add_thread_id could have: an empty id is skipped
add_thread_id_SkipEmpty(o, thread_id) ==
    IF thread_id = <<>> THEN o
    ELSE IF ~IsSome(o.session_id)
    THEN [o EXCEPT !.session_id = Some(thread_id)]
    ELSE IF o.session_id # Some(thread_id)
         THEN [o EXCEPT !.multiple_threads_seen = TRUE]
         ELSE o

\* a bug add_thread_id could have: a new thread starts the messages afresh
add_thread_id_ClearsMessages(o, thread_id) ==
    IF ~IsSome(o.session_id)
    THEN [o EXCEPT !.session_id = Some(thread_id)]
    ELSE IF o.session_id # Some(thread_id)
         THEN [o EXCEPT !.multiple_threads_seen = TRUE, !.messages = <<>>]
         ELSE o

\* a bug add_thread_id could have: the flag is raised for every id that is
\* not the stored one, the first included, and an empty id is not stored
add_thread_id_FlagBeforeId(o, thread_id) ==
    IF o.session_id = Some(thread_id) THEN o
    ELSE IF ~IsSome(o.session_id)
    THEN IF thread_id = <<>>
         THEN [o EXCEPT !.multiple_threads_seen = TRUE]
         ELSE [o EXCEPT !.session_id = Some(thread_id)]
    ELSE [o EXCEPT !.multiple_threads_seen = TRUE]

add_thread_id(o, thread_id) ==
    IF ~IsSome(o.session_id)
    THEN [o EXCEPT !.session_id = Some(thread_id)]
    ELSE IF o.session_id # Some(thread_id)
         THEN [o EXCEPT !.multiple_threads_seen = TRUE]
         ELSE o

\* a bug add_message could have: the emptiness test is missing
add_message_NoFilter(o, text) ==
    [o EXCEPT !.messages = Append(@, text)]

add_message(o, text) ==
    IF text # <<>>
    THEN [o EXCEPT !.messages = Append(@, text)]
    ELSE o

\* a bug aggregated_message could have: joined without the separator
aggregated_message_NoSeparator(o) == Join(o.messages, <<>>)

aggregated_message(o) == Join(o.messages, <<NL>>)

WARN_MULTIPLE == "Warning: Multiple thread IDs seen, using first"
WARN_NO_SESSION == "Warning: No session ID received"
NOTE_NO_RESPONSE == "Note: No response received"
SESSION_PREFIX == "Session: "

\* a bug render could have: the no-response note is not tied to the session id
render_NoteAlways(o) ==
    LET stderr1 == IF o.multiple_threads_seen
                   THEN Writeln(<<>>, <<WARN_MULTIPLE>>) ELSE <<>>
        stdout1 == IF IsSome(o.session_id)
                   THEN Writeln(<<>>, <<SESSION_PREFIX>> \o Unwrap(o.session_id))
                   ELSE <<>>
        stderr2 == IF IsSome(o.session_id)
                   THEN stderr1 ELSE Writeln(stderr1, <<WARN_NO_SESSION>>)
        message == aggregated_message(o)
    IN  IF message = <<>>
        THEN [stdout |-> stdout1, stderr |-> Writeln(stderr2, <<NOTE_NO_RESPONSE>>)]
        ELSE [stdout |-> Writeln(Writeln(stdout1, <<>>), message), stderr |-> stderr2]

render(o) ==
    LET stderr1 == IF o.multiple_threads_seen
                   THEN Writeln(<<>>, <<WARN_MULTIPLE>>) ELSE <<>>
        stdout1 == IF IsSome(o.session_id)
                   THEN Writeln(<<>>, <<SESSION_PREFIX>> \o Unwrap(o.session_id))
                   ELSE <<>>
        stderr2 == IF IsSome(o.session_id)
                   THEN stderr1 ELSE Writeln(stderr1, <<WARN_NO_SESSION>>)
        message == aggregated_message(o)
    IN  IF message = <<>>
        THEN [stdout |-> stdout1,
              stderr |-> IF IsSome(o.session_id)
                         THEN Writeln(stderr2, <<NOTE_NO_RESPONSE>>) ELSE stderr2]
        ELSE [stdout |-> Writeln(Writeln(stdout1, <<>>), message), stderr |-> stderr2]

Min(a, b) == IF a < b THEN a ELSE b
Take(seq, n) == SubSeq(seq, 1, Min(n, Len(seq)))
Drop(seq, n) == SubSeq(seq, Min(n, Len(seq)) + 1, Len(seq))

\* ------------------------------------------------------------------ events
\* A stdout line: whether its bytes decode as UTF-8 and, if serde_json parses
\* it, the JSON value.  JSON values: strings, numbers, objects (records).
JStr(s) == [t |-> "str", v |-> s]
JNum == [t |-> "num", v |-> 0]
JObj(fields) == [t |-> "obj", v |-> fields]
\* Value::get(key)
Get(v, key) == IF v.t = "obj" /\ key \in DOMAIN v.v THEN Some(v.v[key]) ELSE None
\* Value::as_str()
AsStr(v) == IF v.t = "str" THEN Some(v.v) ELSE None
\* o.and_then(|v| v.get(key)).and_then(|v| v.as_str())
GetStr(o, key) ==
    IF ~IsSome(o) THEN None
    ELSE IF ~IsSome(Get(Unwrap(o), key)) THEN None
    ELSE AsStr(Unwrap(Get(Unwrap(o), key)))

ThreadStarted(thread_id) == [kind |-> "ThreadStarted", thread_id |-> thread_id]
AgentMessage(text) == [kind |-> "AgentMessage", text |-> text]

extract_event(line) ==
    LET v == line.json
        event_type == GetStr(v, "type")
    IN  IF ~IsSome(event_type) THEN None
        ELSE IF Unwrap(event_type) = "thread.started"
        THEN LET thread_id == GetStr(v, "thread_id")
             IN  IF IsSome(thread_id) THEN Some(ThreadStarted(Unwrap(thread_id))) ELSE None
        ELSE IF Unwrap(event_type) = "item.completed"
        THEN LET item == Get(Unwrap(v), "item")
                 item_type == GetStr(item, "type")
             IN  IF ~IsSome(item_type) THEN None
                 ELSE IF Unwrap(item_type) = "agent_message"
                 THEN Some(AgentMessage(GetStr(item, "text")))
                 ELSE None
        ELSE None

LineThread(id) ==
    [utf8 |-> TRUE,
     json |-> Some(JObj([type |-> JStr("thread.started"), thread_id |-> JStr(id)]))]
LineMessage(text) ==
    [utf8 |-> TRUE,
     json |-> Some(JObj([type |-> JStr("item.completed"),
                         item |-> JObj([type |-> JStr("agent_message"),
                                        text |-> JStr(text)])]))]
LineNotJson == [utf8 |-> TRUE, json |-> None]
LineBadUtf8 == [utf8 |-> FALSE, json |-> None]
\* the lines the child of Spec writes
ProcLines == {LineThread(<<"a">>), LineMessage(<<"h">>), LineBadUtf8}

\* lines of other shapes: an agent message without text, a thread.started
\* whose id is not a string, a completed item that is not an agent message
LineMessageNoText ==
    [utf8 |-> TRUE,
     json |-> Some(JObj([type |-> JStr("item.completed"),
                         item |-> JObj([type |-> JStr("agent_message")])]))]
LineThreadNumId ==
    [utf8 |-> TRUE,
     json |-> Some(JObj([type |-> JStr("thread.started"), thread_id |-> JNum]))]
LineToolCall ==
    [utf8 |-> TRUE,
     json |-> Some(JObj([type |-> JStr("item.completed"),
                         item |-> JObj([type |-> JStr("tool_call"),
                                        text |-> JStr(<<"h">>)])]))]
\* the decodable lines of the readers of ParseSpec
FoldLines ==
    {LineThread(<<"a">>), LineThread(<<"b">>), LineMessage(<<"h">>), LineMessage(<<"w">>),
     LineMessage(<<>>), LineMessageNoText, LineThreadNumId, LineToolCall, LineNotJson}

\* a bug the loop could have: only the first agent message is kept
fold_line_FirstMessageOnly(o, line) ==
    LET event == extract_event(line)
    IN  IF ~IsSome(event) THEN o
        ELSE IF Unwrap(event).kind = "ThreadStarted"
        THEN add_thread_id(o, Unwrap(event).thread_id)
        ELSE IF IsSome(Unwrap(event).text) /\ o.messages = <<>>
        THEN add_message(o, Unwrap(Unwrap(event).text))
        ELSE o

\* the body of parse_codex_stream's loop for one decoded line
fold_line(o, line) ==
    LET event == extract_event(line)
    IN  IF ~IsSome(event) THEN o
        ELSE IF Unwrap(event).kind = "ThreadStarted"
        THEN add_thread_id(o, Unwrap(event).thread_id)
        ELSE IF IsSome(Unwrap(event).text)
        THEN add_message(o, Unwrap(Unwrap(event).text))
        ELSE o

\* ------------------------------------------------------------- run_codex
VARIABLES
    args, prompt, resume,   \* run_codex's parameters
    fed,            \* the lines of the reader parse_codex_stream was called on
    exitCode,       \* what main returned to the operating system, if it has
    pc,             \* where the calling flow is in run_codex
    result,         \* None while running, then what run_codex returned
    status,         \* the ExitStatus child.wait() returned
    printed,        \* what the run wrote to the wrapper's own stdout/stderr
    stdinLeft,      \* the part of the prompt line not yet written to stdin
    stdinSent,      \* history: what the calling flow wrote to the child's stdin
    sawBadLine,     \* history: the reader met a line that is not UTF-8
    log,            \* history: lifecycle events in the order they happened
    childState,     \* "none" | "running" | "exited"
    childArgv,      \* the arguments the child was spawned with
    childOp,        \* the blocking call the child is inside, if any
    childStatus,    \* the ExitStatus the child ended with
    outSent,        \* number of lines the child wrote to stdout
    errSent,        \* history: the bytes the child wrote to stderr
    childInEof,     \* the child saw end-of-input on its stdin
    stdoutPipe, stderrPipe, stdinPipe,  \* [buf, w: write end open, r: read end open]
    drainPc,        \* "none" | "read" | "done": the capture_stderr thread
    buffer, truncated, stderr_error     \* capture_stderr's result

\* run_codex's parameters and its callers' state: run_codex changes neither
inVars == <<args, prompt, resume, fed, exitCode>>
mainVars == <<pc, result, status, printed, stdinLeft, stdinSent, sawBadLine>>
childVars == <<childState, childArgv, childOp, childStatus, outSent, errSent, childInEof>>
pipeVars == <<stdoutPipe, stderrPipe, stdinPipe>>
drainVars == <<drainPc, buffer, truncated, stderr_error>>
procVars == <<inVars, mainVars, childVars, pipeVars, drainVars, log>>
vars == <<aggVars, procVars>>

\* enum ResumeTarget
SessionId(id) == [kind |-> "SessionId", id |-> id]
Last == [kind |-> "Last"]

RECURSIVE Repeat(_, _)
Repeat(sym, n) == IF n = 0 THEN <<>> ELSE <<sym>> \o Repeat(sym, n - 1)
\* no prompt, and a prompt whose line does not fit into the stdin pipe at once
Prompts == {<<>>, Repeat("p", MaxPrompt)}
PassArgs == {<< <<"-m">> >>}

\* what main.rs hands to run_codex: run_exec refuses an empty prompt and
\* passes no resume target, run_resume passes no arguments
Invocations ==
    {[args |-> a, prompt |-> p, resume |-> None] :
        a \in PassArgs, p \in Prompts \ {<<>>}}
    \cup {[args |-> <<>>, prompt |-> p, resume |-> Some(r)] :
        p \in Prompts, r \in {SessionId(<<"s">>), Last}}

\* the argument list run_codex builds
BuildArgs(a, p, r) ==
    LET base == << <<"exec">>, <<"--experimental-json">>, <<"--skip-git-repo-check">> >>
    IN  IF IsSome(r)
        THEN IF Unwrap(r).kind = "SessionId"
             THEN base \o << <<"resume">>, Unwrap(r).id >>
                       \o (IF p # <<>> THEN <<p>> ELSE <<>>)
             ELSE base \o << <<"resume">>, <<"--last">> >>
        ELSE base \o a \o <<p>>

\* a bug run_codex could have: every resumed session gets its prompt by stdin
use_stdin_for_prompt_AnyResume(p, r) ==
    IsSome(r) /\ p # <<>>

use_stdin_for_prompt(p, r) ==
    IsSome(r) /\ Unwrap(r).kind = "Last" /\ p # <<>>

OpenPipe == [buf |-> <<>>, w |-> TRUE, r |-> TRUE]
NoPipe == [buf |-> <<>>, w |-> FALSE, r |-> FALSE]

\* Result<i32>: Ok(exit_code) or the error with its context
Ok(code) == [ok |-> TRUE, code |-> code]
Err(what) == [ok |-> FALSE, err |-> what]
ERR_SPAWN == "Failed to spawn codex process"
ERR_STDOUT == "Failed to read codex stdout"
ERR_STDIN == "stdin write failed"

ExitStatuses == {[code |-> Some(0)], [code |-> Some(3)], [code |-> None]}
\* ExitStatus::success()
Success(st) == st.code = Some(0)

\* the statements of run_codex after the spawn, in program order
Lifecycle_JoinBeforeWait == <<"start_drain", "read_stdout", "join", "wait", "report", "done">>

Lifecycle == <<"start_drain", "read_stdout", "wait", "join", "report", "done">>

\* the statement that follows statement p
NextPc(p) ==
    LET i == CHOOSE k \in 1..Len(Lifecycle) : Lifecycle[k] = p
    IN  Lifecycle[i + 1]

ProcInit ==
    /\ pc = "spawn"
    /\ result = None
    /\ status = None
    /\ printed = <<>>
    /\ stdinLeft = <<>>
    /\ stdinSent = <<>>
    /\ sawBadLine = FALSE
    /\ log = <<>>
    /\ childState = "none"
    /\ childArgv = <<>>
    /\ childOp = None
    /\ childStatus = None
    /\ outSent = 0
    /\ errSent = <<>>
    /\ childInEof = FALSE
    /\ stdoutPipe = NoPipe
    /\ stderrPipe = NoPipe
    /\ stdinPipe = NoPipe
    /\ drainPc = "none"
    /\ buffer = <<>>
    /\ truncated = FALSE
    /\ stderr_error = None

Init ==
    /\ \E inv \in Invocations :
          /\ args = inv.args
          /\ prompt = inv.prompt
          /\ resume = inv.resume
    /\ fed = <<>>
    /\ exitCode = None
    /\ output = NewOutput
    /\ calls = <<>>
    /\ rendered = <<>>
    /\ renders = 0
    /\ ProcInit

\* ---------------------------------------------------- the calling flow
\* cmd.spawn(): the child runs with stdout and stderr piped, stdin piped
\* only for a prompt sent over stdin; or the spawn fails and `?` returns
SpawnOk ==
    /\ pc = "spawn"
    /\ childState' = "running"
    /\ childArgv' = BuildArgs(args, prompt, resume)
    /\ stdoutPipe' = OpenPipe
    /\ stderrPipe' = OpenPipe
    /\ stdinPipe' = IF use_stdin_for_prompt(prompt, resume) THEN OpenPipe ELSE NoPipe
    /\ stdinLeft' = IF use_stdin_for_prompt(prompt, resume)
                    THEN Writeln(<<>>, prompt) ELSE <<>>
    /\ pc' = IF use_stdin_for_prompt(prompt, resume) THEN "write_prompt" ELSE Lifecycle[1]
    /\ UNCHANGED <<aggVars, inVars, result, status, printed, stdinSent, sawBadLine, log,
                   childOp, childStatus, outSent, errSent, childInEof, drainVars>>

SpawnFail ==
    /\ pc = "spawn"
    /\ pc' = "failed"
    /\ result' = Some(Err(ERR_SPAWN))
    /\ UNCHANGED <<aggVars, inVars, status, printed, stdinLeft, stdinSent, sawBadLine, log,
                   childVars, pipeVars, drainVars>>

\* writeln!(stdin, "{}", prompt)?: write_all blocks while the pipe is full
WritePrompt ==
    /\ pc = "write_prompt"
    /\ stdinLeft # <<>>
    /\ stdinPipe.r
    /\ Len(stdinPipe.buf) < PIPE_IN
    /\ stdinPipe' = [stdinPipe EXCEPT !.buf = Append(@, Head(stdinLeft))]
    /\ stdinLeft' = Tail(stdinLeft)
    /\ stdinSent' = Append(stdinSent, Head(stdinLeft))
    /\ UNCHANGED <<aggVars, inVars, pc, result, status, printed, sawBadLine, log,
                   childVars, stdoutPipe, stderrPipe, drainVars>>

\* the write fails (the child closed its stdin or is gone): `?` returns,
\* dropping stdin and the Child with its stdout and stderr handles
WritePromptFail ==
    /\ pc = "write_prompt"
    /\ stdinLeft # <<>>
    /\ ~stdinPipe.r
    /\ pc' = "failed"
    /\ result' = Some(Err(ERR_STDIN))
    /\ stdinPipe' = [stdinPipe EXCEPT !.w = FALSE]
    /\ stdoutPipe' = [stdoutPipe EXCEPT !.r = FALSE]
    /\ stderrPipe' = [stderrPipe EXCEPT !.r = FALSE]
    /\ UNCHANGED <<aggVars, inVars, status, printed, stdinLeft, stdinSent, sawBadLine, log,
                   childVars, drainVars>>

\* stdin.flush()?; stdin is dropped here, closing it
ClosePrompt ==
    /\ pc = "write_prompt"
    /\ stdinLeft = <<>>
    /\ stdinPipe' = [stdinPipe EXCEPT !.w = FALSE]
    /\ pc' = Lifecycle[1]
    /\ UNCHANGED <<aggVars, inVars, result, status, printed, stdinLeft, stdinSent, sawBadLine, log,
                   childVars, stdoutPipe, stderrPipe, drainVars>>

\* thread::spawn(move || capture_stderr(stderr))
StartDrain ==
    /\ pc = "start_drain"
    /\ drainPc' = "read"
    /\ pc' = NextPc(pc)
    /\ UNCHANGED <<aggVars, inVars, result, status, printed, stdinLeft, stdinSent, sawBadLine, log,
                   childVars, pipeVars, buffer, truncated, stderr_error>>

\* a bug the reader could have: undecodable bytes are replaced, not refused
LineDecodes_Lossy(line) == TRUE

\* BufRead::lines() yields Err(InvalidData) for a line that is not UTF-8
LineDecodes(line) == line.utf8

\* parse_codex_stream: one iteration of `for line in reader.lines()`
ReadLine ==
    /\ pc = "read_stdout"
    /\ stdoutPipe.buf # <<>>
    /\ LET line == Head(stdoutPipe.buf)
       IN  /\ sawBadLine' = (sawBadLine \/ ~line.utf8)
           /\ IF LineDecodes(line)
              THEN /\ output' = fold_line(output, line)
                   /\ stdoutPipe' = [stdoutPipe EXCEPT !.buf = Tail(@)]
                   /\ UNCHANGED <<pc, result>>
              ELSE \* `line?` returns; .context(..)? returns from run_codex,
                   \* dropping the reader
                   /\ pc' = "failed"
                   /\ result' = Some(Err(ERR_STDOUT))
                   /\ stdoutPipe' = [stdoutPipe EXCEPT !.buf = Tail(@), !.r = FALSE]
                   /\ UNCHANGED output
    /\ UNCHANGED <<calls, rendered, renders, inVars, status, printed, stdinLeft, stdinSent, log,
                   childVars, stderrPipe, stdinPipe, drainVars>>

\* the reader reaches end-of-stream: parse_codex_stream returns Ok(output)
ReadEof ==
    /\ pc = "read_stdout"
    /\ stdoutPipe.buf = <<>>
    /\ ~stdoutPipe.w
    /\ stdoutPipe' = [stdoutPipe EXCEPT !.r = FALSE]
    /\ log' = Append(log, "stdout_eof")
    /\ pc' = NextPc(pc)
    /\ UNCHANGED <<aggVars, inVars, result, status, printed, stdinLeft, stdinSent, sawBadLine,
                   childVars, stderrPipe, stdinPipe, drainVars>>

\* child.wait(): returns once the child has exited
Wait ==
    /\ pc = "wait"
    /\ childState = "exited"
    /\ status' = Some(childStatus)
    /\ log' = Append(log, "wait")
    /\ pc' = NextPc(pc)
    /\ UNCHANGED <<aggVars, inVars, result, printed, stdinLeft, stdinSent, sawBadLine,
                   childVars, pipeVars, drainVars>>

\* stderr_handle.join(): returns once capture_stderr has returned
JoinDrain ==
    /\ pc = "join"
    /\ drainPc = "done"
    /\ log' = Append(log, "join")
    /\ pc' = NextPc(pc)
    /\ UNCHANGED <<aggVars, inVars, result, status, printed, stdinLeft, stdinSent, sawBadLine,
                   childVars, pipeVars, drainVars>>

\* host stderr / stdout writes: formatted text (eprintln!, print!) ...
ToStderr(text) == [fd |-> "stderr", raw |-> FALSE, text |-> text]
ToStdout(text) == [fd |-> "stdout", raw |-> FALSE, text |-> text]
\* ... and io::stderr().write_all(bytes): the captured bytes as they are
WriteAll(bytes) == [fd |-> "stderr", raw |-> TRUE, text |-> bytes]

\* CodexOutput::print: each rendered stream is written if it is not empty
print(o) ==
    LET r == render(o)
    IN  (IF r.stdout # <<>> THEN <<ToStdout(r.stdout)>> ELSE <<>>)
        \o (IF r.stderr # <<>> THEN <<ToStderr(r.stderr)>> ELSE <<>>)

\* a bug the report could have: a child without an exit code counts as 0
exit_code_ZeroWhenAbsent(st) == IF IsSome(st.code) THEN Unwrap(st.code) ELSE 0

\* status.code().unwrap_or(1)
exit_code(st) == IF IsSome(st.code) THEN Unwrap(st.code) ELSE 1

\* a bug the report could have: the captured bytes are echoed whatever the
\* child's status was
ReportText_EchoOnSuccess(st, buf, trunc, err, o) ==
    LET echo ==
          IF ~Success(st)
          THEN (IF buf # <<>>
                THEN <<ToStderr(<<"--- codex stderr ---", NL>>), WriteAll(buf)>>
                     \o (IF trunc
                         THEN <<ToStderr(<<"(stderr truncated to ", ToString(STDERR_CAP_BYTES),
                                         " bytes)", NL>>)>>
                         ELSE <<>>)
                     \o (IF IsSome(err)
                         THEN <<ToStderr(<<"(failed to capture full stderr: ",
                                         Unwrap(err), ")", NL>>)>>
                         ELSE <<>>)
                     \o <<ToStderr(<<"--- end stderr ---", NL>>)>>
                ELSE IF IsSome(err)
                THEN <<ToStderr(<<"--- codex stderr ---", NL>>),
                       ToStderr(<<"Failed to capture stderr: ", Unwrap(err), NL>>),
                       ToStderr(<<"--- end stderr ---", NL>>)>>
                ELSE <<>>)
               \o (IF ~IsSome(o.session_id) /\ o.messages = <<>>
                   THEN <<ToStderr(<<"Codex exited with code ", ToString(exit_code(st)),
                                   " and produced no JSON output", NL>>)>>
                   ELSE <<>>)
          ELSE (IF buf # <<>>
                THEN <<ToStderr(<<"--- codex stderr ---", NL>>), WriteAll(buf),
                       ToStderr(<<"--- end stderr ---", NL>>)>>
                ELSE <<>>)
               \o (IF IsSome(err)
                   THEN <<ToStderr(<<"Warning: Failed to capture codex stderr: ",
                                   Unwrap(err), NL>>)>>
                   ELSE <<>>)
    IN  echo \o print(o)

\* what run_codex writes between the join and its return
ReportText(st, buf, trunc, err, o) ==
    LET echo ==
          IF ~Success(st)
          THEN (IF buf # <<>>
                THEN <<ToStderr(<<"--- codex stderr ---", NL>>), WriteAll(buf)>>
                     \o (IF trunc
                         THEN <<ToStderr(<<"(stderr truncated to ", ToString(STDERR_CAP_BYTES),
                                         " bytes)", NL>>)>>
                         ELSE <<>>)
                     \o (IF IsSome(err)
                         THEN <<ToStderr(<<"(failed to capture full stderr: ",
                                         Unwrap(err), ")", NL>>)>>
                         ELSE <<>>)
                     \o <<ToStderr(<<"--- end stderr ---", NL>>)>>
                ELSE IF IsSome(err)
                THEN <<ToStderr(<<"--- codex stderr ---", NL>>),
                       ToStderr(<<"Failed to capture stderr: ", Unwrap(err), NL>>),
                       ToStderr(<<"--- end stderr ---", NL>>)>>
                ELSE <<>>)
               \o (IF ~IsSome(o.session_id) /\ o.messages = <<>>
                   THEN <<ToStderr(<<"Codex exited with code ", ToString(exit_code(st)),
                                   " and produced no JSON output", NL>>)>>
                   ELSE <<>>)
          ELSE IF IsSome(err)
          THEN <<ToStderr(<<"Warning: Failed to capture codex stderr: ", Unwrap(err), NL>>)>>
          ELSE <<>>
    IN  echo \o print(o)

\* lines 87-120: compose the report, print it, return Ok(exit_code)
Report ==
    /\ pc = "report"
    /\ printed' = printed \o ReportText(Unwrap(status), buffer, truncated, stderr_error, output)
    /\ result' = Some(Ok(exit_code(Unwrap(status))))
    /\ pc' = NextPc(pc)
    /\ UNCHANGED <<aggVars, inVars, status, stdinLeft, stdinSent, sawBadLine, log,
                   childVars, pipeVars, drainVars>>

MainNext ==
    \/ SpawnOk
    \/ SpawnFail
    \/ WritePrompt
    \/ WritePromptFail
    \/ ClosePrompt
    \/ StartDrain
    \/ ReadLine
    \/ ReadEof
    \/ Wait
    \/ JoinDrain
    \/ Report

\* ------------------------------------------------- the capture_stderr thread
\* a bug capture_stderr could have: the newest bytes are kept, not the oldest
CaptureChunk_KeepNewest(st, chunk) ==
    LET all == st.buffer \o chunk
    IN  [buffer |-> Drop(all, Len(all) - Min(Len(all), STDERR_CAP_BYTES)),
         truncated |-> st.truncated \/ Len(all) > STDERR_CAP_BYTES]

\* the Ok(n) arm of capture_stderr's loop, for the n bytes just read
CaptureChunk(st, chunk) ==
    LET n == Len(chunk)
        remaining == IF STDERR_CAP_BYTES >= Len(st.buffer)
                     THEN STDERR_CAP_BYTES - Len(st.buffer) ELSE 0
        to_copy == Min(remaining, n)
    IN  IF remaining = 0
        THEN [st EXCEPT !.truncated = TRUE]
        ELSE [buffer |-> st.buffer \o Take(chunk, to_copy),
              truncated |-> st.truncated \/ to_copy < n]

\* a design that would not do: stderr is read only once stdout is finished
DrainRuns_AfterStdout == drainPc = "read" /\ pc # "read_stdout"

\* the drain is a thread of its own: it runs whatever the calling flow does
DrainRuns == drainPc = "read"

\* reader.read(&mut chunk) returns Ok(n), 0 < n <= chunk.len()
DrainRead ==
    /\ DrainRuns
    /\ stderrPipe.buf # <<>>
    /\ \E n \in 1..Min(CHUNK_LEN, Len(stderrPipe.buf)) :
          LET st == CaptureChunk([buffer |-> buffer, truncated |-> truncated],
                                 Take(stderrPipe.buf, n))
          IN  /\ buffer' = st.buffer
              /\ truncated' = st.truncated
              /\ stderrPipe' = [stderrPipe EXCEPT !.buf = Drop(@, n)]
    /\ UNCHANGED <<aggVars, inVars, mainVars, childVars, stdoutPipe, stdinPipe,
                   drainPc, stderr_error, log>>

\* a bug capture_stderr could have: the loop also ends when the cap is reached
DrainEof_StopsAtCap ==
    /\ DrainRuns
    /\ \/ stderrPipe.buf = <<>> /\ ~stderrPipe.w
       \/ Len(buffer) >= STDERR_CAP_BYTES
    /\ drainPc' = "done"
    /\ stderrPipe' = [stderrPipe EXCEPT !.r = FALSE]
    /\ log' = Append(log, "stderr_eof")
    /\ UNCHANGED <<aggVars, inVars, mainVars, childVars, stdoutPipe, stdinPipe,
                   buffer, truncated, stderr_error>>

\* reader.read returns Ok(0): the loop breaks, (buffer, truncated, None)
DrainEof ==
    /\ DrainRuns
    /\ stderrPipe.buf = <<>>
    /\ ~stderrPipe.w
    /\ drainPc' = "done"
    /\ stderrPipe' = [stderrPipe EXCEPT !.r = FALSE]
    /\ log' = Append(log, "stderr_eof")
    /\ UNCHANGED <<aggVars, inVars, mainVars, childVars, stdoutPipe, stdinPipe,
                   buffer, truncated, stderr_error>>

\* a bug capture_stderr could have: the error is returned without the bytes
DrainError_LosesBuffer ==
    /\ DrainRuns
    /\ stderr_error' = Some("io error")
    /\ buffer' = <<>>
    /\ drainPc' = "done"
    /\ stderrPipe' = [stderrPipe EXCEPT !.r = FALSE]
    /\ UNCHANGED <<aggVars, inVars, mainVars, childVars, stdoutPipe, stdinPipe,
                   truncated, log>>

\* reader.read returns Err(e): return (buffer, truncated, Some(e))
DrainError ==
    /\ DrainRuns
    /\ stderr_error' = Some("io error")
    /\ drainPc' = "done"
    /\ stderrPipe' = [stderrPipe EXCEPT !.r = FALSE]
    /\ UNCHANGED <<aggVars, inVars, mainVars, childVars, stdoutPipe, stdinPipe,
                   buffer, truncated, log>>

\* the steps the drain takes when the operating system serves its read
DrainProgress == DrainRead \/ DrainEof

DrainNext == DrainProgress \/ DrainError

\* ------------------------------------------------------------ the child
\* The child is any program: it writes lines to stdout and bytes to stderr
\* in the order it likes, reads its stdin if that is a pipe, closes streams
\* and exits.  A write to a full pipe and a read of an empty one block: the
\* child is then inside that call (childOp) until it can complete.
OpOut(line) == [k |-> "out", line |-> line]
OpErr == [k |-> "err"]
OpIn == [k |-> "in"]

ChildFree(op) == childState = "running" /\ (childOp = None \/ childOp = Some(op))

\* the child's end of everything is closed when it terminates
ChildGone(st) ==
    /\ childState' = "exited"
    /\ childStatus' = st
    /\ childOp' = None
    /\ stdoutPipe' = [stdoutPipe EXCEPT !.w = FALSE]
    /\ stderrPipe' = [stderrPipe EXCEPT !.w = FALSE]
    /\ stdinPipe' = [stdinPipe EXCEPT !.r = FALSE]

\* write(1, line)
ChildWriteOut(line) ==
    /\ ChildFree(OpOut(line))
    /\ stdoutPipe.w
    /\ outSent < MaxOut
    /\ IF stdoutPipe.r /\ Len(stdoutPipe.buf) >= PIPE_LINES
       THEN \* the pipe is full: the call blocks
            /\ childOp = None
            /\ childOp' = Some(OpOut(line))
            /\ UNCHANGED <<childState, childStatus, outSent, pipeVars>>
       ELSE IF stdoutPipe.r
       THEN /\ stdoutPipe' = [stdoutPipe EXCEPT !.buf = Append(@, line)]
            /\ outSent' = outSent + 1
            /\ childOp' = None
            /\ UNCHANGED <<childState, childStatus, stderrPipe, stdinPipe>>
       ELSE \* nobody reads any more: EPIPE (the child gives the stream up)
            \* or death by SIGPIPE
            \/ /\ stdoutPipe' = [stdoutPipe EXCEPT !.w = FALSE]
               /\ childOp' = None
               /\ UNCHANGED <<childState, childStatus, outSent, stderrPipe, stdinPipe>>
            \/ /\ ChildGone([code |-> None])
               /\ UNCHANGED outSent
    /\ UNCHANGED <<aggVars, inVars, mainVars, childArgv, errSent, childInEof, drainVars, log>>

\* write(2, byte): the i-th byte written is the byte i
ChildWriteErr ==
    /\ ChildFree(OpErr)
    /\ stderrPipe.w
    /\ Len(errSent) < MaxErr
    /\ IF stderrPipe.r /\ Len(stderrPipe.buf) >= PIPE_CAP
       THEN /\ childOp = None
            /\ childOp' = Some(OpErr)
            /\ UNCHANGED <<childState, childStatus, errSent, pipeVars>>
       ELSE IF stderrPipe.r
       THEN /\ stderrPipe' = [stderrPipe EXCEPT !.buf = Append(@, Len(errSent) + 1)]
            /\ errSent' = Append(errSent, Len(errSent) + 1)
            /\ childOp' = None
            /\ UNCHANGED <<childState, childStatus, stdoutPipe, stdinPipe>>
       ELSE \/ /\ stderrPipe' = [stderrPipe EXCEPT !.w = FALSE]
               /\ childOp' = None
               /\ UNCHANGED <<childState, childStatus, errSent, stdoutPipe, stdinPipe>>
            \/ /\ ChildGone([code |-> None])
               /\ UNCHANGED errSent
    /\ UNCHANGED <<aggVars, inVars, mainVars, childArgv, outSent, childInEof, drainVars, log>>

\* read(0, ..): a byte of the prompt, or end of input once the wrapper has
\* closed its end
ChildReadIn ==
    /\ ChildFree(OpIn)
    /\ stdinPipe.r
    /\ ~childInEof
    /\ IF stdinPipe.buf # <<>>
       THEN /\ stdinPipe' = [stdinPipe EXCEPT !.buf = Tail(@)]
            /\ childOp' = None
            /\ UNCHANGED childInEof
       ELSE IF ~stdinPipe.w
       THEN /\ childInEof' = TRUE
            /\ childOp' = None
            /\ UNCHANGED stdinPipe
       ELSE /\ childOp = None
            /\ childOp' = Some(OpIn)
            /\ UNCHANGED <<stdinPipe, childInEof>>
    /\ UNCHANGED <<aggVars, inVars, mainVars, childState, childArgv, childStatus,
                   outSent, errSent, stdoutPipe, stderrPipe, drainVars, log>>

\* close(1)
ChildCloseOut ==
    /\ childState = "running" /\ childOp = None
    /\ stdoutPipe.w
    /\ stdoutPipe' = [stdoutPipe EXCEPT !.w = FALSE]
    /\ UNCHANGED <<aggVars, inVars, mainVars, childVars, stderrPipe, stdinPipe,
                   drainVars, log>>

\* close(2)
ChildCloseErr ==
    /\ childState = "running" /\ childOp = None
    /\ stderrPipe.w
    /\ stderrPipe' = [stderrPipe EXCEPT !.w = FALSE]
    /\ UNCHANGED <<aggVars, inVars, mainVars, childVars, stdoutPipe, stdinPipe,
                   drainVars, log>>

\* exit(code), or death by a signal (no code)
ChildExit(st) ==
    /\ childState = "running" /\ childOp = None
    /\ ChildGone(st)
    /\ UNCHANGED <<aggVars, inVars, mainVars, childArgv, outSent, errSent, childInEof,
                   drainVars, log>>

ChildNext ==
    \/ \E line \in ProcLines : ChildWriteOut(line)
    \/ ChildWriteErr
    \/ ChildReadIn
    \/ ChildCloseOut
    \/ ChildCloseErr
    \/ \E st \in ExitStatuses : ChildExit(st)

\* ------------------------------------------------------------ the system
Next == MainNext \/ DrainNext \/ ChildNext

Spec == Init /\ [][Next]_vars

\* Threads and processes are scheduled fairly: a step that stays possible
\* is taken.  A read error is the environment's choice and is never forced.
FairSpec ==
    /\ Spec
    /\ WF_vars(MainNext)
    /\ WF_vars(DrainProgress)
    /\ WF_vars(ChildNext)

\* -------------------------------------------------- AggSpec: the call steps
AggInit ==
    /\ output = NewOutput
    /\ calls = <<>>
    /\ rendered = <<>>
    /\ renders = 0
    /\ args = <<>>
    /\ prompt = <<>>
    /\ resume = None
    /\ fed = <<>>
    /\ exitCode = None
    /\ ProcInit

CallAddThreadId(thread_id) ==
    /\ Len(calls) < MaxCalls
    /\ output' = add_thread_id(output, thread_id)
    /\ calls' = Append(calls, [op |-> "add_thread_id", arg |-> thread_id])
    /\ UNCHANGED <<rendered, renders>>

CallAddMessage(text) ==
    /\ Len(calls) < MaxCalls
    /\ output' = add_message(output, text)
    /\ calls' = Append(calls, [op |-> "add_message", arg |-> text])
    /\ UNCHANGED <<rendered, renders>>

\* a bug render could have: it takes the warning flag with it (warn once)
CallRender_ClearsFlag ==
    /\ renders < MaxRenders
    /\ rendered' = Append(rendered, [n |-> Len(calls), out |-> render(output)])
    /\ renders' = renders + 1
    /\ output' = [output EXCEPT !.multiple_threads_seen = FALSE]
    /\ UNCHANGED calls

\* render(&self): the aggregate is borrowed immutably
CallRender ==
    /\ renders < MaxRenders
    /\ rendered' = Append(rendered, [n |-> Len(calls), out |-> render(output)])
    /\ renders' = renders + 1
    /\ UNCHANGED <<output, calls>>

AggNext ==
    \/ \E id \in ThreadIds : CallAddThreadId(id) /\ UNCHANGED procVars
    \/ \E t \in Texts : CallAddMessage(t) /\ UNCHANGED procVars
    \/ CallRender /\ UNCHANGED procVars

AggSpec == AggInit /\ [][AggNext]_vars

\* ------------------------------- ParseSpec: parse_codex_stream on a reader
\* every sequence of at most n elements of S
SeqsUpTo(S, n) == UNION {[1..k -> S] : k \in 0..n}

\* parse_codex_stream(reader) is entered with a reader over a finished
\* input, as in its unit test; its loop is ReadLine, its return ReadEof
ParseInit ==
    /\ fed \in SeqsUpTo(FoldLines, MaxLines)
    /\ stdoutPipe = [buf |-> fed, w |-> FALSE, r |-> TRUE]
    /\ pc = "read_stdout"
    /\ output = NewOutput /\ calls = <<>> /\ rendered = <<>> /\ renders = 0
    /\ args = <<>> /\ prompt = <<>> /\ resume = None /\ exitCode = None
    /\ result = None /\ status = None /\ printed = <<>>
    /\ stdinLeft = <<>> /\ stdinSent = <<>> /\ sawBadLine = FALSE /\ log = <<>>
    /\ childState = "none" /\ childArgv = <<>> /\ childOp = None
    /\ childStatus = None /\ outSent = 0 /\ errSent = <<>> /\ childInEof = FALSE
    /\ stderrPipe = NoPipe /\ stdinPipe = NoPipe
    /\ drainPc = "none" /\ buffer = <<>> /\ truncated = FALSE /\ stderr_error = None

ParseNext == ReadLine \/ ReadEof

ParseSpec == ParseInit /\ [][ParseNext]_vars

\* ------------------------------------------- ClampSpec: main's exit code
\* a bug exit_code_from_child could have: the cast without the range test
exit_code_from_child_Wraps(code) == code % (U8_MAX + 1)

\* main.rs exit_code_from_child; `code as u8` keeps the low eight bits
exit_code_from_child(code) ==
    IF code < 0 \/ code > U8_MAX
    THEN EXIT_FAILURE
    ELSE code % (U8_MAX + 1)

\* the i32 values run_codex may hand back: around 0..=255 and the extremes
Codes == ((0 - CodeSlack)..(U8_MAX + CodeSlack)) \cup {-2147483647 - 1, 2147483647}

\* run_resume / run_exec have returned to main
ClampInit ==
    /\ \E r \in {Ok(c) : c \in Codes} \cup {Err(ERR_SPAWN), Err(ERR_STDOUT)} :
          /\ result = Some(r)
          /\ pc = IF r.ok THEN "done" ELSE "failed"
    /\ exitCode = None
    /\ output = NewOutput /\ calls = <<>> /\ rendered = <<>> /\ renders = 0
    /\ args = <<>> /\ prompt = <<>> /\ resume = None /\ fed = <<>>
    /\ status = None /\ printed = <<>> /\ stdinLeft = <<>> /\ stdinSent = <<>>
    /\ sawBadLine = FALSE /\ log = <<>>
    /\ childState = "none" /\ childArgv = <<>> /\ childOp = None
    /\ childStatus = None /\ outSent = 0 /\ errSent = <<>> /\ childInEof = FALSE
    /\ stdoutPipe = NoPipe /\ stderrPipe = NoPipe /\ stdinPipe = NoPipe
    /\ drainPc = "none" /\ buffer = <<>> /\ truncated = FALSE /\ stderr_error = None

\* main's `match result`: the clamped code, or the error printed and 1
MainExit ==
    /\ IsSome(result)
    /\ exitCode = None
    /\ IF Unwrap(result).ok
       THEN /\ exitCode' = Some(exit_code_from_child(Unwrap(result).code))
            /\ UNCHANGED printed
       ELSE /\ exitCode' = Some(1)
            /\ printed' = Append(printed, ToStderr(<<"Error: ", Unwrap(result).err, NL>>))
    /\ UNCHANGED <<aggVars, args, prompt, resume, fed, pc, result, status, stdinLeft,
                   stdinSent, sawBadLine, log, childVars, pipeVars, drainVars>>

ClampNext == MainExit

ClampSpec == ClampInit /\ [][ClampNext]_vars

\* ======================================================================
\* Properties of CodexOutput (checked under AggSpec)
\* ======================================================================
IsThreadCall(c) == c.op = "add_thread_id"
IsMessageCall(c) == c.op = "add_message"
NonEmpty(s) == s # <<>>
ArgsOf(cs) == [i \in 1..Len(cs) |-> cs[i].arg]
\* the ids passed to add_thread_id so far, in call order
ThreadIdArgs == ArgsOf(SelectSeq(calls, IsThreadCall))
\* the texts passed to add_message so far, in call order
MessageArgs == ArgsOf(SelectSeq(calls, IsMessageCall))

RECURSIVE Replay(_)
\* the call history applied to a fresh aggregator
Replay(cs) ==
    IF cs = <<>> THEN NewOutput
    ELSE LET before == Replay(SubSeq(cs, 1, Len(cs) - 1))
             c == cs[Len(cs)]
         IN  IF c.op = "add_thread_id"
             THEN add_thread_id(before, c.arg)
             ELSE add_message(before, c.arg)

RECURSIVE LinesOf(_)
\* every string of the sequence followed by a line terminator
LinesOf(strs) ==
    IF strs = <<>> THEN <<>> ELSE strs[1] \o <<NL>> \o LinesOf(Tail(strs))

\* the step appends a call of add_thread_id to the history
IsThreadStep ==
    /\ Len(calls') = Len(calls) + 1
    /\ calls'[Len(calls')].op = "add_thread_id"

\* C3: after any non-empty sequence of add_thread_id calls (add_message calls
\* interleaved), session_id is the id of the first call, and
\* multiple_threads_seen is true exactly when a later call supplied an id
\* different from the first; repeating the same id does not set it.
C3_FirstThreadIdWins ==
    LET ids == ThreadIdArgs
    IN  ids # <<>> =>
          /\ output.session_id = Some(ids[1])
          /\ output.multiple_threads_seen <=> (\E i \in 2..Len(ids) : ids[i] # ids[1])

\* C3 witness: the first id was repeated (flag still clear at that point is
\* implied by the theorem) and then a different id arrived.
C3_Witness ==
    LET ids == ThreadIdArgs
    IN  /\ Len(ids) = 3
        /\ ids[2] = ids[1]
        /\ ids[3] # ids[1]
        /\ output.multiple_threads_seen
        /\ output.session_id = Some(ids[1])

\* C4 as stated: session_id is the first NON-EMPTY id supplied; an empty id
\* never becomes the session id.
C4_FirstNonEmptyIdWins ==
    LET ne == SelectSeq(ThreadIdArgs, NonEmpty)
    IN  /\ output.session_id # Some(<<>>)
        /\ ne = <<>> => output.session_id = None
        /\ ne # <<>> => output.session_id = Some(ne[1])

\* C4 amended: session_id is set at most once, by the first add_thread_id
\* call and to the value that call supplies, empty or not, and no later step
\* overwrites or clears it.
C4_SessionIdSetOnceToFirstValue ==
    [][ /\ IsSome(output.session_id) => output'.session_id = output.session_id
        /\ (~IsSome(output.session_id) /\ IsThreadStep)
              => output'.session_id = Some(calls'[Len(calls')].arg)
        /\ (~IsSome(output.session_id) /\ ~IsThreadStep)
              => output'.session_id = None ]_aggVars

\* C4 witness: the first id supplied was empty, it became the session id and
\* a later non-empty id did not replace it.
C4_Witness ==
    LET ids == ThreadIdArgs
    IN  /\ Len(ids) >= 2
        /\ ids[1] = <<>>
        /\ ids[2] # <<>>
        /\ output.session_id = Some(<<>>)

\* C5: the stored messages are exactly the non-empty add_message arguments,
\* in call order.
C5_MessagesAreNonEmptyArgs ==
    output.messages = SelectSeq(MessageArgs, NonEmpty)

\* C5 witness: three add_message calls, the middle one empty, the other two
\* distinct and kept in order.
C5_Witness ==
    LET ms == MessageArgs
    IN  /\ Len(ms) = 3
        /\ ms[2] = <<>>
        /\ ms[1] # <<>> /\ ms[3] # <<>> /\ ms[1] # ms[3]
        /\ output.messages = <<ms[1], ms[3]>>

\* C7: render() leaves the aggregate as it is; render() calls with no
\* mutating call in between return the same output; and what render()
\* returned is what a fresh aggregator fed the same calls renders.
C7_RenderIdempotentDeterministic ==
    /\ [][Len(rendered') > Len(rendered) => output' = output]_aggVars
    /\ [](\A i, j \in 1..Len(rendered) :
             rendered[i].n = rendered[j].n => rendered[i].out = rendered[j].out)
    /\ [](\A i \in 1..Len(rendered) :
             rendered[i].out = render(Replay(SubSeq(calls, 1, rendered[i].n))))

\* C7 witness: render() was called twice in a row on an aggregate holding a
\* session id, the multiple-threads flag and nothing else changed between.
C7_Witness ==
    /\ Len(rendered) = 2
    /\ rendered[1].n = rendered[2].n
    /\ rendered[1].n = Len(calls)
    /\ output.multiple_threads_seen

\* C8: render().stdout is "Session: <id>\n" iff a session id is present,
\* followed iff there are messages by an empty line and every message on a
\* line of its own.
C8_PrimaryComposition ==
    LET head == IF IsSome(output.session_id)
                THEN <<SESSION_PREFIX>> \o Unwrap(output.session_id) \o <<NL>>
                ELSE <<>>
        body == IF output.messages # <<>>
                THEN <<NL>> \o LinesOf(output.messages)
                ELSE <<>>
    IN  render(output).stdout = head \o body

\* C8 witness: a session id and two messages, rendered.
C8_Witness ==
    /\ IsSome(output.session_id)
    /\ Len(output.messages) = 2
    /\ rendered # <<>>
    /\ rendered[Len(rendered)].n = Len(calls)

\* C9: render().stderr holds the multiple-thread-ids warning iff
\* multiple_threads_seen, the no-session-id warning iff session_id is absent,
\* the no-response note iff a session id is present and there are no
\* messages; the multiple-thread-ids warning, when present, is first.
C9_DiagnosticComposition ==
    LET err == render(output).stderr
    IN  /\ Contains(err, WARN_MULTIPLE) <=> output.multiple_threads_seen
        /\ Contains(err, WARN_NO_SESSION) <=> ~IsSome(output.session_id)
        /\ Contains(err, NOTE_NO_RESPONSE)
              <=> (IsSome(output.session_id) /\ output.messages = <<>>)
        /\ output.multiple_threads_seen => err[1] = WARN_MULTIPLE

\* C9 witness: the flag is set, no message arrived, and render() was called.
C9_Witness ==
    /\ output.multiple_threads_seen
    /\ output.messages = <<>>
    /\ rendered # <<>>
    /\ rendered[Len(rendered)].n = Len(calls)
    /\ Len(rendered[Len(rendered)].out.stderr) = 4

\* the step appends a call of add_message to the history
IsMessageStep ==
    /\ Len(calls') = Len(calls) + 1
    /\ calls'[Len(calls')].op = "add_message"

\* C20: in every step, a session id that is set stays as it is, a set
\* multiple_threads_seen stays set and the messages before the step are a
\* prefix of the messages after it; an add_message step leaves session_id
\* and multiple_threads_seen as they are, an add_thread_id step leaves the
\* messages as they are.
C20_MonotoneFramed ==
    [][ /\ IsSome(output.session_id) => output'.session_id = output.session_id
        /\ output.multiple_threads_seen => output'.multiple_threads_seen
        /\ Len(output'.messages) >= Len(output.messages)
        /\ SubSeq(output'.messages, 1, Len(output.messages)) = output.messages
        /\ IsMessageStep =>
              /\ output'.session_id = output.session_id
              /\ output'.multiple_threads_seen = output.multiple_threads_seen
        /\ IsThreadStep => output'.messages = output.messages ]_aggVars

\* C20 witness: a message was stored, then add_thread_id was called twice
\* with different ids: the flag is set and the message is still there.
C20_Witness ==
    /\ Len(calls) = 3
    /\ calls[1].op = "add_message"
    /\ calls[2].op = "add_thread_id" /\ calls[3].op = "add_thread_id"
    /\ calls[2].arg # calls[3].arg
    /\ output.multiple_threads_seen
    /\ output.session_id = Some(calls[2].arg)
    /\ output.messages = <<calls[1].arg>>

\* C21: in every state reached from a fresh aggregator through
\* add_thread_id and add_message, multiple_threads_seen implies that a
\* session id is present; so neither render() of the current aggregate nor
\* any render() made so far holds the multiple-thread-ids warning together
\* with the no-session-id warning.
C21_FlagImpliesSessionId ==
    /\ output.multiple_threads_seen => IsSome(output.session_id)
    /\ ~(/\ Contains(render(output).stderr, WARN_MULTIPLE)
         /\ Contains(render(output).stderr, WARN_NO_SESSION))
    /\ \A i \in 1..Len(rendered) :
          ~(/\ Contains(rendered[i].out.stderr, WARN_MULTIPLE)
            /\ Contains(rendered[i].out.stderr, WARN_NO_SESSION))

\* C21 witness: the first id was empty and a different id followed: the
\* flag is set, the (empty) session id is present, and render() gave the
\* multiple-thread-ids warning without the no-session-id warning.
C21_Witness ==
    /\ output.multiple_threads_seen
    /\ output.session_id = Some(<<>>)
    /\ rendered # <<>>
    /\ rendered[Len(rendered)].n = Len(calls)
    /\ Contains(rendered[Len(rendered)].out.stderr, WARN_MULTIPLE)
    /\ ~Contains(rendered[Len(rendered)].out.stderr, WARN_NO_SESSION)

\* ======================================================================
\* Properties of run_codex (checked under Spec and FairSpec)
\* ======================================================================
UseStdin == use_stdin_for_prompt(prompt, resume)
HasEvent(e) == \E i \in 1..Len(log) : log[i] = e
Before(a, b) == \E i, j \in 1..Len(log) : i < j /\ log[i] = a /\ log[j] = b
SpawnFailed == pc # "spawn" /\ childState = "none"

\* C1: when no prompt goes over stdin, whatever the child writes to stdout
\* and stderr and in whatever order, under fair scheduling run_codex returns;
\* it fails only if the spawn failed or a stdout line could not be read, and
\* when it returns an exit code with no capture error then both streams were
\* read to end-of-stream, the drain was joined and the child waited for.
C1_DualPipeDrainCompletes ==
    ~UseStdin =>
       <>(\/ /\ pc = "failed"
             /\ SpawnFailed \/ sawBadLine
          \/ /\ pc = "done"
             /\ IsSome(result) /\ Unwrap(result).ok
             /\ HasEvent("stdout_eof") /\ HasEvent("wait") /\ HasEvent("join")
             /\ ~IsSome(stderr_error) => HasEvent("stderr_eof"))

\* C1 witness: the run returned after the child had written more than a
\* pipe holds to stdout and to stderr.
C1_Witness ==
    /\ ~UseStdin
    /\ pc = "done"
    /\ ~IsSome(stderr_error)
    /\ outSent > PIPE_LINES
    /\ Len(errSent) > PIPE_CAP
    /\ HasEvent("stdout_eof") /\ HasEvent("stderr_eof")

C6_BoundedCapture ==
    (drainPc = "done" /\ ~IsSome(stderr_error)) =>
        IF Len(errSent) <= STDERR_CAP_BYTES
        THEN buffer = errSent /\ ~truncated
        ELSE /\ Len(buffer) = STDERR_CAP_BYTES
             /\ buffer = SubSeq(errSent, 1, STDERR_CAP_BYTES)
             /\ truncated

\* C6 witness: the drain ended cleanly on an input longer than the cap.
C6_Witness ==
    /\ drainPc = "done"
    /\ ~IsSome(stderr_error)
    /\ Len(errSent) > STDERR_CAP_BYTES
    /\ truncated
    /\ Len(buffer) = STDERR_CAP_BYTES

\* C10: a failed spawn or an unreadable stdout line makes run_codex return
\* an error; nothing is printed, the aggregate is not touched again, and
\* after a failed spawn there is no drain thread.
C10_FatalErrorsAbort ==
    /\ [](sawBadLine =>
            /\ pc = "failed"
            /\ result = Some(Err(ERR_STDOUT))
            /\ printed = <<>>)
    /\ [](SpawnFailed =>
            /\ pc = "failed"
            /\ result = Some(Err(ERR_SPAWN))
            /\ printed = <<>>
            /\ drainPc = "none"
            /\ output = NewOutput)
    /\ [][sawBadLine' => output' = output]_vars

\* C10 witness: a stdout line could not be decoded after an event had been
\* aggregated, with the drain thread running.
C10_Witness ==
    /\ sawBadLine
    /\ IsSome(output.session_id)
    /\ drainPc = "read"
    /\ pc = "failed"

\* ----------------------------------------------------------------- C11
\* the formatted text with these symbols was written to the host's stderr
Noted(text) ==
    \E i \in 1..Len(printed) :
        ~printed[i].raw /\ printed[i].fd = "stderr" /\ printed[i].text = text

\* the run's output ends with what CodexOutput::print writes for o
EndsWithRendered(o) ==
    LET tail == print(o)
        k == Len(printed) - Len(tail)
    IN  /\ tail # <<>>
        /\ k >= 0
        /\ \A i \in 1..Len(tail) : ~printed[k + i].raw /\ printed[k + i] = tail[i]

\* the capture failure is reported in one of the three places of the report
CaptureFailureNoted ==
    LET e == Unwrap(stderr_error)
    IN  \/ Noted(<<"(failed to capture full stderr: ", e, ")", NL>>)
        \/ Noted(<<"Failed to capture stderr: ", e, NL>>)
        \/ Noted(<<"Warning: Failed to capture codex stderr: ", e, NL>>)

\* C11: a read error ends the drain, which hands back the bytes captured
\* before the failure (the bytes it had read, up to the cap)
\* together with the error; the run is not failed by it: under fair
\* scheduling run_codex still returns (an error only for an unreadable
\* stdout line), and when it returns normally it returns the child's exit
\* code, has reported the capture failure and has emitted the rendered
\* output of the aggregate last.
C11_CaptureErrorNonFatal ==
    /\ [](IsSome(stderr_error) =>
            /\ drainPc = "done"
            /\ Len(buffer) <= STDERR_CAP_BYTES
            /\ buffer = Take(SubSeq(errSent, 1, Len(errSent) - Len(stderrPipe.buf)),
                             STDERR_CAP_BYTES)
            /\ IsSome(result) => (Unwrap(result).ok \/ sawBadLine)
            /\ pc = "done" =>
                 /\ result = Some(Ok(IF IsSome(childStatus.code)
                                     THEN Unwrap(childStatus.code) ELSE 1))
                 /\ CaptureFailureNoted
                 /\ EndsWithRendered(output))
    /\ (IsSome(stderr_error) ~> (pc = "done" \/ sawBadLine))

\* C11 witness: the drain failed after capturing a byte, the child failed,
\* and the run returned its exit code with the partial capture echoed.
C11_Witness ==
    /\ IsSome(stderr_error)
    /\ buffer # <<>>
    /\ Len(buffer) < Len(errSent)
    /\ pc = "done"
    /\ result = Some(Ok(3))
    /\ Noted(<<"(failed to capture full stderr: ", Unwrap(stderr_error), ")", NL>>)

PastPrompt ==
    \/ pc \in {"start_drain", "read_stdout", "wait", "join", "report", "done"}
    \/ drainPc # "none"

\* C13: for every mode and prompt, the argument list ends with the
\* passthrough arguments and then the prompt (no resume), with the session
\* id and then the prompt iff it is not empty (resume by id), with the
\* most-recent flag and no prompt (resume last); the child is spawned with
\* that list; its stdin is piped iff the mode is resume-last and the prompt
\* is not empty, and then exactly the prompt and a line terminator are
\* written and the stream is closed before the drain is started, stdout is
\* read or the child is waited for; otherwise nothing is ever written.
C13_PromptDeliveryByMode ==
    /\ \A a \in PassArgs \cup {<<>>}, p \in Prompts,
          r \in {None, Some(SessionId(<<"s">>)), Some(Last)} :
          LET argv == BuildArgs(a, p, r)
              n == Len(argv)
          IN  /\ ~IsSome(r) =>
                    /\ argv[n] = p
                    /\ SubSeq(argv, n - Len(a), n - 1) = a
              /\ (IsSome(r) /\ Unwrap(r).kind = "SessionId") =>
                    /\ IF p # <<>>
                       THEN argv[n] = p /\ argv[n - 1] = Unwrap(r).id
                       ELSE argv[n] = Unwrap(r).id
                    /\ argv[n - (IF p # <<>> THEN 2 ELSE 1)] = <<"resume">>
              /\ (IsSome(r) /\ Unwrap(r).kind = "Last") =>
                    /\ argv[n] = <<"--last">>
                    /\ \A i \in 1..n : argv[i] # p
    /\ childState # "none" => childArgv = BuildArgs(args, prompt, resume)
    /\ IF IsSome(resume) /\ Unwrap(resume).kind = "Last" /\ prompt # <<>>
       THEN /\ pc = "write_prompt" =>
                 /\ stdinPipe.w
                 /\ stdinSent \o stdinLeft = prompt \o <<NL>>
                 /\ drainPc = "none" /\ log = <<>> /\ output = NewOutput
            /\ PastPrompt =>
                 /\ stdinSent = prompt \o <<NL>>
                 /\ ~stdinPipe.w
       ELSE /\ stdinPipe = NoPipe
            /\ stdinSent = <<>>
            /\ pc # "write_prompt"

\* C13 witness: a resume-last run whose prompt went over stdin, read by the
\* child to end-of-input, with the calling flow now reading stdout.
C13_Witness ==
    /\ IsSome(resume) /\ Unwrap(resume).kind = "Last"
    /\ stdinSent = prompt \o <<NL>>
    /\ Len(stdinSent) > PIPE_IN
    /\ childInEof
    /\ pc = "read_stdout"

\* ----------------------------------------------------------------- C14
\* captured bytes were written to the host's stderr
BytesEchoed == \E i \in 1..Len(printed) : printed[i].raw

\* C14: when run_codex has returned an exit code: the captured bytes are
\* echoed iff the child failed and at least one byte was captured, and then
\* the begin marker comes first, the bytes second, the end marker after
\* them with nothing between but the truncation note (iff truncated) and the
\* capture-failure note; the no-JSON-output note is there iff the child
\* failed and the aggregate has neither session id nor messages; when the
\* child succeeded the output is the capture warning iff capture failed and
\* then the rendered output; the rendered output always comes last.
C14_ReportComposition ==
    pc = "done" =>
        LET failed == childStatus.code # Some(0)
            echoing == failed /\ buffer # <<>>
            TRUNC == <<"(stderr truncated to ", ToString(STDERR_CAP_BYTES), " bytes)", NL>>
            PARTIAL == <<"(failed to capture full stderr: ", "io error", ")", NL>>
            END == <<"--- end stderr ---", NL>>
            NO_OUTPUT == <<"Codex exited with code ",
                           ToString(IF IsSome(childStatus.code)
                                    THEN Unwrap(childStatus.code) ELSE 1),
                           " and produced no JSON output", NL>>
            WARNING == <<"Warning: Failed to capture codex stderr: ", "io error", NL>>
        IN  /\ BytesEchoed <=> echoing
            /\ echoing =>
                  /\ printed[1] = ToStderr(<<"--- codex stderr ---", NL>>)
                  /\ printed[2].raw /\ printed[2].text = buffer
                  /\ \E e \in 3..Len(printed) :
                        /\ printed[e] = ToStderr(END)
                        /\ \A i \in 3..(e - 1) : printed[i].text \in {TRUNC, PARTIAL}
                        /\ \A i \in (e + 1)..Len(printed) :
                              ~printed[i].raw /\ printed[i].text \notin {TRUNC, PARTIAL, END}
            /\ Noted(TRUNC) <=> (echoing /\ truncated)
            /\ Noted(PARTIAL) <=> (echoing /\ IsSome(stderr_error))
            /\ Noted(NO_OUTPUT)
                  <=> (failed /\ ~IsSome(output.session_id) /\ output.messages = <<>>)
            /\ ~failed =>
                  printed = (IF IsSome(stderr_error) THEN <<ToStderr(WARNING)>> ELSE <<>>)
                            \o print(output)
            /\ Noted(WARNING) <=> (~failed /\ IsSome(stderr_error))
            /\ EndsWithRendered(output)

\* C14 witness: the child failed without a recognised event after writing
\* more to stderr than the cap: framed echo, truncation note, no-output note
\* and the rendered warning after them.
C14_Witness ==
    /\ pc = "done"
    /\ childStatus = [code |-> Some(3)]
    /\ truncated
    /\ ~IsSome(stderr_error)
    /\ output = NewOutput
    /\ Len(printed) = 6
    /\ printed[2] = WriteAll(buffer)

\* ======================================================================
\* Properties of main's exit code (checked under ClampSpec)
\* ======================================================================
\* C15: the process exit code main returns for Ok(code) is code itself when
\* 0 <= code <= 255 and the generic failure value otherwise.
C15_ExitCodeClamped ==
    (IsSome(exitCode) /\ Unwrap(result).ok) =>
        LET code == Unwrap(result).code
        IN  IF 0 <= code /\ code <= 255
            THEN exitCode = Some(code)
            ELSE exitCode = Some(EXIT_FAILURE)

\* C15 witness: run_codex handed back 256, which the cast alone would turn
\* into 0, and main returned the failure value.
C15_Witness ==
    /\ result = Some(Ok(256))
    /\ exitCode = Some(EXIT_FAILURE)

\* ======================================================================
\* Properties of parse_codex_stream (checked under ParseSpec)
\* ======================================================================
RECURSIVE ExpectedCalls(_)
\* the aggregator calls the lines stand for, in line order: add_thread_id
\* for a ThreadStarted event, add_message for an AgentMessage with a text,
\* nothing for any other line
ExpectedCalls(lines) ==
    IF lines = <<>> THEN <<>>
    ELSE LET event == extract_event(Head(lines))
             call == IF ~IsSome(event) THEN <<>>
                     ELSE IF Unwrap(event).kind = "ThreadStarted"
                     THEN <<[op |-> "add_thread_id", arg |-> Unwrap(event).thread_id]>>
                     ELSE IF IsSome(Unwrap(event).text)
                     THEN <<[op |-> "add_message", arg |-> Unwrap(Unwrap(event).text)]>>
                     ELSE <<>>
         IN  call \o ExpectedCalls(Tail(lines))

\* the lines the reader has handed out so far
LinesRead == SubSeq(fed, 1, Len(fed) - Len(stdoutPipe.buf))

\* C16: at every point of the loop the aggregate is what a fresh aggregator
\* becomes under the calls the lines read so far stand for, in order; the
\* function returns only when every line has been read; and thread.started
\* followed by two agent messages gives that session id and both messages
\* in order.
C16_StreamFolding ==
    /\ output = Replay(ExpectedCalls(LinesRead))
    /\ pc # "failed"
    /\ pc = "wait" =>
          /\ LinesRead = fed
          /\ output = Replay(ExpectedCalls(fed))
          /\ fed = <<LineThread(<<"a">>), LineMessage(<<"h">>), LineMessage(<<"w">>)>> =>
                output = [session_id |-> Some(<<"a">>),
                          messages |-> << <<"h">>, <<"w">> >>,
                          multiple_threads_seen |-> FALSE]

\* C16 witness: the three lines of the unit test were read to the end.
C16_Witness ==
    /\ pc = "wait"
    /\ fed = <<LineThread(<<"a">>), LineMessage(<<"h">>), LineMessage(<<"w">>)>>
    /\ output.session_id = Some(<<"a">>)
    /\ Len(output.messages) = 2

\* ----------------------------------------------------------------- C17
\* the bytes the drain has taken out of the stderr pipe
BytesRead == SubSeq(errSent, 1, Len(errSent) - Len(stderrPipe.buf))

\* C17: in every state the retained buffer is the first bytes read, at most
\* the cap of them, and the truncation flag is set exactly when a byte has
\* been read and not retained; a drain at the cap still takes what is in the
\* pipe; and the drain ends only on a read error or on end-of-stream, with
\* the pipe empty and its write end closed.
C17_DrainNeverStopsAtCap ==
    /\ Len(buffer) <= STDERR_CAP_BYTES
    /\ buffer = Take(BytesRead, STDERR_CAP_BYTES)
    /\ truncated <=> Len(BytesRead) > Len(buffer)
    /\ (drainPc = "read" /\ stderrPipe.buf # <<>>) => ENABLED DrainRead
    /\ drainPc = "done" =>
          \/ IsSome(stderr_error)
          \/ /\ HasEvent("stderr_eof")
             /\ stderrPipe.buf = <<>>
             /\ ~stderrPipe.w
             /\ BytesRead = errSent
    /\ HasEvent("stderr_eof") => (drainPc = "done" /\ ~IsSome(stderr_error))

\* C17 witness: the drain is at the cap, has read and discarded a byte
\* beyond it, and is still reading while the child holds stderr open.
C17_Witness ==
    /\ drainPc = "read"
    /\ Len(buffer) = STDERR_CAP_BYTES
    /\ truncated
    /\ Len(BytesRead) > STDERR_CAP_BYTES
    /\ stderrPipe.w

\* ----------------------------------------------------------------- C18
\* the calling flow is inside writeln!(stdin, ..) and the stdin pipe is full
PromptWriteBlocked ==
    /\ pc = "write_prompt"
    /\ stdinLeft # <<>>
    /\ stdinPipe.r
    /\ Len(stdinPipe.buf) >= PIPE_IN

\* the child is inside a write to a full stdout or stderr pipe
ChildWriteBlocked == IsSome(childOp) /\ Unwrap(childOp).k \in {"out", "err"}

\* C18 as stated: there is no reachable state where the calling flow is
\* blocked writing the prompt to a full stdin pipe while the child is blocked
\* writing to a stdout or stderr pipe that nobody drains yet.
C18_PromptWriteNeverDeadlocks ==
    ~(PromptWriteBlocked /\ ChildWriteBlocked /\ drainPc = "none")

\* ----------------------------------------------------------------- C19
\* C19 as stated: whenever run_codex has returned after a successful spawn,
\* with an exit code or with an error, the child has been waited for and the
\* stderr drain thread has been joined.
C19_ChildAlwaysCleanedUp ==
    (IsSome(result) /\ childState # "none") =>
        (HasEvent("wait") /\ HasEvent("join"))

=============================================================================
